---- MODULE Spec2Model ----
(***************************************************************************)
(* Titanic dashboard: the aggregators of apputil.py and the script app.py. *)
(*                                                                         *)
(* A table (DataFrame) is a sequence of records, one per CSV row.  A       *)
(* string is a sequence of one-character strings, so that splitting,       *)
(* trimming, case folding and lexicographic comparison are computed.       *)
(* Ages, fares and counts are integers; a missing number is NaN.  A float  *)
(* quotient n/d is the reduced fraction <<n, d>>; NaN/NaN is <<0, 0>>.      *)
(* Inputs follow the passenger schema: PassengerId, Pclass, Sex, Survived, *)
(* SibSp and Parch are present in every row; Age, Fare and Name may be     *)
(* missing.                                                                *)
(***************************************************************************)
EXTENDS Integers, Sequences, FiniteSets

VARIABLES
    csv,     \* the table each URL serves
    call,    \* the last apputil function called, and the URL it read
    out,     \* what that call returned
    raised,  \* the exception the last call raised, or "none"
    pc,      \* app.py: the statement to run next (0: no run in progress)
    env,     \* app.py: the script's variables
    shown    \* app.py: what has been put on the page, in order

vars == <<csv, call, out, raised, pc, env, shown>>

\* What a library call leaves alone.
app == <<csv, pc, env, shown>>

\* ------------------------------------------------------------------ values

\* A missing number (pandas NaN in a numeric column).
NaN == 0 - 1

\* A missing string (pandas NaN in an object column); no string has this shape.
NaNStr == <<"NaN">>

\* NaN / NaN, the float a rate takes when both counts are missing.
NaNRate == <<0, 0>>

RECURSIVE Gcd(_, _)
Gcd(a, b) == IF b = 0 THEN a ELSE Gcd(b, a % b)

\* Float division a / b of two numeric cells, NaN propagating.
TrueDiv(a, b) ==
    IF a = NaN \/ b = NaN THEN NaNRate
    ELSE IF b = 0 THEN (IF a = 0 THEN NaNRate ELSE <<1, 0>>)
    ELSE <<a \div Gcd(a, b), b \div Gcd(a, b)>>

\* Series.fillna(0) on a numeric cell.
FillNa0(x) == IF x = NaN THEN 0 ELSE x

\* Mutant of FillNaRate0: the rate column is left unfilled.
FillNaRateSkipped(r) == r

\* Series.fillna(0) on a float quotient.
FillNaRate0(r) == IF r = NaNRate THEN <<0, 1>> ELSE r

\* ----------------------------------------------------------------- strings

\* The characters the model's strings are made of, in code-point order.
UpperCase ==
    <<"A", "B", "C", "D", "E", "F", "G", "H", "I", "J", "K", "L", "M",
      "N", "O", "P", "Q", "R", "S", "T", "U", "V", "W", "X", "Y", "Z">>

LowerCase ==
    <<"a", "b", "c", "d", "e", "f", "g", "h", "i", "j", "k", "l", "m",
      "n", "o", "p", "q", "r", "s", "t", "u", "v", "w", "x", "y", "z">>

Ascii == <<" ", ",">> \o UpperCase \o LowerCase

\* ord(c), up to the order it induces.
CharCode == [c \in {Ascii[i] : i \in 1..Len(Ascii)} |->
                CHOOSE i \in 1..Len(Ascii) : Ascii[i] = c]

\* str.lower on one character.
LowerChar == [c \in {Ascii[i] : i \in 1..Len(Ascii)} |->
                 IF \E i \in 1..Len(UpperCase) : UpperCase[i] = c
                 THEN LowerCase[CHOOSE i \in 1..Len(UpperCase) : UpperCase[i] = c]
                 ELSE c]

\* Series.str.lower: NaN stays NaN.
StrLower(s) == IF s = NaNStr THEN NaNStr ELSE [i \in 1..Len(s) |-> LowerChar[s[i]]]

IsSpace(c) == c = " "

\* Series.str.strip: surrounding whitespace removed, NaN stays NaN.
StrStrip(s) ==
    IF s = NaNStr THEN NaNStr
    ELSE IF \A i \in 1..Len(s) : IsSpace(s[i]) THEN <<>>
    ELSE LET first == CHOOSE i \in 1..Len(s) :
                          /\ ~IsSpace(s[i])
                          /\ \A j \in 1..(i - 1) : IsSpace(s[j])
             last == CHOOSE i \in 1..Len(s) :
                         /\ ~IsSpace(s[i])
                         /\ \A j \in (i + 1)..Len(s) : IsSpace(s[j])
         IN  SubSeq(s, first, last)

\* Mutant of StrSplitFirst: the text before the last comma.
StrSplitLast(s) ==
    IF s = NaNStr THEN NaNStr
    ELSE IF \A i \in 1..Len(s) : s[i] # "," THEN s
    ELSE SubSeq(s, 1, (CHOOSE i \in 1..Len(s) :
                           /\ s[i] = ","
                           /\ \A j \in (i + 1)..Len(s) : s[j] # ",") - 1)

\* Series.str.split(',').str[0]: the text before the first comma, the whole
\* string when it holds none, NaN for NaN.
StrSplitFirst(s) ==
    IF s = NaNStr THEN NaNStr
    ELSE IF \A i \in 1..Len(s) : s[i] # "," THEN s
    ELSE SubSeq(s, 1, (CHOOSE i \in 1..Len(s) :
                           /\ s[i] = ","
                           /\ \A j \in 1..(i - 1) : s[j] # ",") - 1)

\* Python's < on str: lexicographic by code point.
StrLess(a, b) ==
    \/ /\ Len(a) < Len(b)
       /\ \A i \in 1..Len(a) : a[i] = b[i]
    \/ \E k \in 1..Len(a) :
           /\ k <= Len(b)
           /\ \A i \in 1..(k - 1) : a[i] = b[i]
           /\ CharCode[a[k]] < CharCode[b[k]]

\* ------------------------------------------------------------------ tables

\* The sequence s as an explicit tuple: its elements are computed once, not
\* at every use.
Tuple(s) == s \o <<>>

\* The rows of table t, as the set of its positions.
Index(t) == 1..Len(t)

\* Series.unique(): the distinct values of column c of table t.
Unique(t, c) == {t[i][c] : i \in Index(t)}

\* sorted(xs) for a set of distinct numbers.
SortedInts(xs) ==
    Tuple([i \in 1..Cardinality(xs) |->
              CHOOSE x \in xs : Cardinality({y \in xs : y < x}) = i - 1])

\* sorted(xs) for a set of distinct strings.
SortedStrs(xs) ==
    Tuple([i \in 1..Cardinality(xs) |->
              CHOOSE x \in xs : Cardinality({y \in xs : StrLess(y, x)}) = i - 1])

\* The position of x in the sequence s of distinct values.
PositionIn(s, x) == CHOOSE i \in 1..Len(s) : s[i] = x

\* The sum of column c over the rows rs of table t, missing cells skipped.
RECURSIVE SumOver(_, _, _)
SumOver(t, rs, c) ==
    IF rs = {} THEN 0
    ELSE LET i == CHOOSE j \in rs : TRUE
         IN  (IF t[i][c] = NaN THEN 0 ELSE t[i][c]) + SumOver(t, rs \ {i}, c)

\* The number of rows among rs of table t whose column c is present.
CountOver(t, rs, c) == Cardinality({i \in rs : t[i][c] # NaN})

\* The elements of a sequence, as a set.
Range(s) == {s[i] : i \in 1..Len(s)}

\* The two URLs of the repository: apputil's default and app.py's own.
DEFAULT_TITANIC_URL == "datasciencedojo/titanic.csv"
url == "leontoddjohnson/titanic.csv"
Urls == {DEFAULT_TITANIC_URL, url}

\* pd.read_csv(u): the table the resource holds.
read_csv(u) == csv[u]

\* --------------------------------------------------- survival_demographics

bins == <<0, 12, 19, 59, 200>>
labels == <<"Child", "Teen", "Adult", "Senior">>

\* The missing category (NaN in a categorical column).
NoGroup == "NaN"

\* pd.cut(x, bins, labels, right=True): the label of the half-open interval
\* (bins[i], bins[i+1]] that holds x; NaN outside every interval and for NaN.
cut(x) ==
    IF x = NaN THEN NoGroup
    ELSE IF \E i \in 1..Len(labels) : bins[i] < x /\ x <= bins[i + 1]
    THEN labels[CHOOSE i \in 1..Len(labels) : bins[i] < x /\ x <= bins[i + 1]]
    ELSE NoGroup

\* df after the derived columns sex, age_group and pclass are added.
demographics_df(t) ==
    Tuple([i \in Index(t) |->
              [PassengerId |-> t[i].PassengerId,
               Survived |-> t[i].Survived,
               sex |-> StrStrip(StrLower(t[i].Sex)),
               age_group |-> cut(t[i].Age),
               pclass |-> t[i].Pclass]])

all_pclasses(d) == SortedInts(Unique(d, "pclass"))
all_sexes(d) == SortedStrs(Unique(d, "sex"))
all_age_groups == labels

\* pd.MultiIndex.from_product: every (pclass, sex, age_group), the last
\* varying fastest.
all_combinations(d) ==
    LET ps == all_pclasses(d)
        ss == all_sexes(d)
        gs == all_age_groups
    IN  Tuple([k \in 1..(Len(ps) * Len(ss) * Len(gs)) |->
                  [pclass |-> ps[((k - 1) \div (Len(ss) * Len(gs))) + 1],
                   sex |-> ss[(((k - 1) \div Len(gs)) % Len(ss)) + 1],
                   age_group |-> gs[((k - 1) % Len(gs)) + 1]]])

KeyOf(r) == [pclass |-> r.pclass, sex |-> r.sex, age_group |-> r.age_group]

\* The keys groupby keeps: those observed, rows with a missing key dropped.
ObservedKeys(d) ==
    {KeyOf(d[i]) : i \in {j \in Index(d) :
                              /\ d[j].pclass # NaN
                              /\ d[j].sex # NaNStr
                              /\ d[j].age_group # NoGroup}}

\* The order of an ordered categorical: the position among the categories.
CategoryCode(g) == PositionIn(labels, g)

\* The spelling of a label, by which an object column compares.
Spelling(g) ==
    CASE g = "Child" -> <<"C", "h", "i", "l", "d">>
      [] g = "Teen" -> <<"T", "e", "e", "n">>
      [] g = "Adult" -> <<"A", "d", "u", "l", "t">>
      [] g = "Senior" -> <<"S", "e", "n", "i", "o", "r">>

\* The labels in the order an object column sorts them: by spelling.
ObjectOrder ==
    Tuple([i \in 1..Len(labels) |->
              CHOOSE g \in {labels[k] : k \in 1..Len(labels)} :
                  Cardinality({h \in {labels[k] : k \in 1..Len(labels)} :
                                  StrLess(Spelling(h), Spelling(g))}) = i - 1])

\* The order of an object (string) value among the labels.
ObjectCode(g) == PositionIn(ObjectOrder, g)

\* Row order under (pclass, sex, age_group) with age_group categorical.
KeyLessCategorical(a, b) ==
    \/ a.pclass < b.pclass
    \/ a.pclass = b.pclass /\ StrLess(a.sex, b.sex)
    \/ /\ a.pclass = b.pclass
       /\ a.sex = b.sex
       /\ CategoryCode(a.age_group) < CategoryCode(b.age_group)

\* df.groupby([...], observed=True).agg(count, sum): one row per observed
\* key, in key order.
groupby_agg(d) ==
    LET ks == ObservedKeys(d)
        row(k) ==
            LET rs == {i \in Index(d) : KeyOf(d[i]) = k}
            IN  [pclass |-> k.pclass, sex |-> k.sex, age_group |-> k.age_group,
                 n_passengers |-> CountOver(d, rs, "PassengerId"),
                 n_survivors |-> SumOver(d, rs, "Survived")]
    IN  Tuple([i \in 1..Cardinality(ks) |->
                  row(CHOOSE k \in ks :
                          Cardinality({j \in ks : KeyLessCategorical(j, k)}) = i - 1)])

\* Mutant of reindex: the grouped rows as they are, no combination added.
ReindexSkipped(g, combos) == g

\* grouped.reindex(all_combinations): one row per combination, in the
\* order of the combinations, both counts NaN where the key is not grouped.
reindex(g, combos) ==
    Tuple([k \in 1..Len(combos) |->
              IF \E i \in 1..Len(g) : KeyOf(g[i]) = combos[k]
              THEN g[CHOOSE i \in 1..Len(g) : KeyOf(g[i]) = combos[k]]
              ELSE [pclass |-> combos[k].pclass, sex |-> combos[k].sex,
                    age_group |-> combos[k].age_group,
                    n_passengers |-> NaN, n_survivors |-> NaN]])

\* Whether the grouped index already equals the product index.
IndexEquals(g, combos) ==
    /\ Len(g) = Len(combos)
    /\ \A i \in 1..Len(g) : KeyOf(g[i]) = combos[i]

\* The dtypes the age_group column can have after reindex and reset_index.
\* The product index holds the labels as plain strings, so a reindex that
\* builds a new index yields an object column; only when the grouped index
\* already equals the product can the categorical level survive.
AgeGroupDtypes(g, combos) ==
    IF IndexEquals(g, combos) THEN {"category", "object"} ELSE {"object"}

\* Lexicographic order on sort keys <<pclass, sex rank, age_group rank>>.
SortKeyLess(a, b) ==
    \/ a[1] < b[1]
    \/ a[1] = b[1] /\ a[2] < b[2]
    \/ a[1] = b[1] /\ a[2] = b[2] /\ a[3] < b[3]

\* grouped.sort_values(["pclass", "sex", "age_group"]): rows ascending by
\* class, then sex as a string, then age_group by its dtype's order.
sort_values(rows, dtype) ==
    LET n == Len(rows)
        ss == SortedStrs({rows[i].sex : i \in 1..n})
        key == Tuple([i \in 1..n |->
                         <<rows[i].pclass,
                           PositionIn(ss, rows[i].sex),
                           IF dtype = "category"
                           THEN CategoryCode(rows[i].age_group)
                           ELSE ObjectCode(rows[i].age_group)>>])
        before == Tuple([i \in 1..n |->
                            Cardinality({j \in 1..n : SortKeyLess(key[j], key[i])})])
    IN  Tuple([k \in 1..n |-> rows[CHOOSE i \in 1..n : before[i] = k - 1]])

\* The table survival_demographics returns for table t.
survival_demographics_table(t, dtype) ==
    LET d == demographics_df(t)
        g == reindex(groupby_agg(d), all_combinations(d))
        rated == Tuple([i \in 1..Len(g) |->
                          [pclass |-> g[i].pclass, sex |-> g[i].sex,
                           age_group |-> g[i].age_group,
                           n_passengers |-> FillNa0(g[i].n_passengers),
                           n_survivors |-> FillNa0(g[i].n_survivors),
                           survival_rate |->
                               FillNaRate0(TrueDiv(g[i].n_survivors,
                                                   g[i].n_passengers))]])
    IN  sort_values(rated, dtype)

survival_demographics(u) ==
    LET t == read_csv(u)
        d == demographics_df(t)
    IN  \E dtype \in AgeGroupDtypes(groupby_agg(d), all_combinations(d)) :
            /\ call' = [fn |-> "survival_demographics", url |-> u]
            /\ out' = survival_demographics_table(t, dtype)
            /\ raised' = "none"

\* ----------------------------------------------------------- family_groups

\* Mutant of family_size: the passenger is not counted.
FamilySizeWithoutSelf(r) == r.SibSp + r.Parch

\* df['family_size'] = df['SibSp'] + df['Parch'] + 1, NaN propagating.
family_size(r) ==
    IF r.SibSp = NaN \/ r.Parch = NaN THEN NaN ELSE r.SibSp + r.Parch + 1

\* df after the derived columns family_size and pclass are added.
family_df(t) ==
    Tuple([i \in Index(t) |->
              [PassengerId |-> t[i].PassengerId,
               Fare |-> t[i].Fare,
               family_size |-> family_size(t[i]),
               pclass |-> t[i].Pclass]])

\* The smallest and the largest present cell of column c among the rows rs
\* of table t; NaN when every cell is missing.
MinOver(t, rs, c) ==
    LET xs == {t[i][c] : i \in {j \in rs : t[j][c] # NaN}}
    IN  IF xs = {} THEN NaN ELSE CHOOSE x \in xs : \A y \in xs : x <= y

MaxOver(t, rs, c) ==
    LET xs == {t[i][c] : i \in {j \in rs : t[j][c] # NaN}}
    IN  IF xs = {} THEN NaN ELSE CHOOSE x \in xs : \A y \in xs : x >= y

\* The mean of the present cells of column c among the rows rs; NaN when
\* every cell is missing.
MeanOver(t, rs, c) == TrueDiv(SumOver(t, rs, c), CountOver(t, rs, c))

\* df.groupby(['family_size', 'pclass']).agg(count, mean, min, max): one
\* row per (family_size, pclass) that occurs, rows with a missing key dropped.
family_agg(d) ==
    LET ks == {<<d[i].family_size, d[i].pclass>> :
                  i \in {j \in Index(d) : d[j].family_size # NaN /\ d[j].pclass # NaN}}
        row(k) ==
            LET rs == {i \in Index(d) : d[i].family_size = k[1] /\ d[i].pclass = k[2]}
            IN  [family_size |-> k[1], pclass |-> k[2],
                 n_passengers |-> CountOver(d, rs, "PassengerId"),
                 avg_fare |-> MeanOver(d, rs, "Fare"),
                 min_fare |-> MinOver(d, rs, "Fare"),
                 max_fare |-> MaxOver(d, rs, "Fare")]
        less(j, k) == j[1] < k[1] \/ (j[1] = k[1] /\ j[2] < k[2])
    IN  Tuple([i \in 1..Cardinality(ks) |->
                  row(CHOOSE k \in ks : Cardinality({j \in ks : less(j, k)}) = i - 1)])

\* grouped.sort_values(['pclass', 'family_size']).
sort_by_class_size(rows) ==
    LET n == Len(rows)
        less(a, b) ==
            \/ a.pclass < b.pclass
            \/ a.pclass = b.pclass /\ a.family_size < b.family_size
    IN  Tuple([k \in 1..n |->
                  rows[CHOOSE i \in 1..n :
                           Cardinality({j \in 1..n : less(rows[j], rows[i])}) = k - 1]])

family_groups_table(t) == sort_by_class_size(family_agg(family_df(t)))

family_groups(u) ==
    /\ call' = [fn |-> "family_groups", url |-> u]
    /\ out' = family_groups_table(read_csv(u))
    /\ raised' = "none"

\* -------------------------------------------------------------- last_names

\* df['Name'].str.split(',').str[0].str.strip()
LastName(name) == StrStrip(StrSplitFirst(name))

\* Every order of the distinct values vs, as sequences.
Orders(vs) ==
    {f \in [1..Cardinality(vs) -> vs] : \A i, j \in DOMAIN f : i # j => f[i] # f[j]}

\* The number of cells of the column col equal to v.
Occurrences(col, v) == Cardinality({i \in 1..Len(col) : col[i] = v})

\* Mutant of value_counts: the counts in any order, not sorted.
ValueCountsUnsorted(col) ==
    LET vs == {col[i] : i \in 1..Len(col)} \ {NaNStr}
    IN  {Tuple([i \in DOMAIN f |-> [LastName |-> f[i], count |-> Occurrences(col, f[i])]]) :
            f \in Orders(vs)}

\* Series.value_counts(): the count of every distinct value, NaN dropped,
\* sorted by descending count.  The sort is not stable, so equal counts may
\* come in any order: the set of the tables it can return.
value_counts(col) ==
    LET vs == {col[i] : i \in 1..Len(col)} \ {NaNStr}
    IN  {Tuple([i \in DOMAIN f |-> [LastName |-> f[i], count |-> Occurrences(col, f[i])]]) :
            f \in {g \in Orders(vs) :
                       \A i \in 1..(Cardinality(vs) - 1) :
                           Occurrences(col, g[i]) >= Occurrences(col, g[i + 1])}}

last_names(u) ==
    LET t == read_csv(u)
        col == Tuple([i \in Index(t) |-> LastName(t[i].Name)])
    IN  \E name_counts \in value_counts(col) :
            /\ call' = [fn |-> "last_names", url |-> u]
            /\ out' = name_counts
            /\ raised' = "none"

\* -------------------------------------------------- determine_age_division

\* The k-th smallest present cell of column c among the rows rs of table t.
KthSmallest(t, rs, c, k) ==
    CHOOSE v \in {t[i][c] : i \in rs} :
        /\ Cardinality({i \in rs : t[i][c] < v}) < k
        /\ k <= Cardinality({i \in rs : t[i][c] <= v})

\* The median of the present cells of column c among the rows rs: the middle
\* value, the mean of the two middle values for an even count, NaN for none.
Median(t, rs, c) ==
    LET known == {i \in rs : t[i][c] # NaN}
        n == Cardinality(known)
    IN  IF n = 0 THEN NaNRate
        ELSE IF n % 2 = 1 THEN TrueDiv(KthSmallest(t, known, c, (n + 1) \div 2), 1)
        ELSE TrueDiv(KthSmallest(t, known, c, n \div 2)
                         + KthSmallest(t, known, c, (n \div 2) + 1), 2)

\* df.groupby("pclass")["age"].transform("median"): for every row the median
\* age of the row's class, NaN when the class is missing.
median_by_class(d) ==
    Tuple([i \in Index(d) |->
              IF d[i].pclass = NaN THEN NaNRate
              ELSE Median(d, {j \in Index(d) : d[j].pclass = d[i].pclass}, "age")])

\* Mutant of Greater: >= in place of >.
GreaterOrEqual(x, m) == x # NaN /\ m # NaNRate /\ x * m[2] >= m[1]

\* x > m for a numeric cell x and a float m; False when either is NaN.
Greater(x, m) == x # NaN /\ m # NaNRate /\ x * m[2] > m[1]

\* df with the columns age, pclass and older_passenger added.
determine_age_division_table(t) ==
    LET d == Tuple([i \in Index(t) |->
                       [PassengerId |-> t[i].PassengerId,
                        Survived |-> t[i].Survived,
                        Pclass |-> t[i].Pclass,
                        Age |-> t[i].Age,
                        age |-> t[i].Age,
                        pclass |-> t[i].Pclass]])
        m == median_by_class(d)
    IN  Tuple([i \in Index(d) |->
                  [PassengerId |-> d[i].PassengerId,
                   Survived |-> d[i].Survived,
                   Pclass |-> d[i].Pclass,
                   Age |-> d[i].Age,
                   age |-> d[i].age,
                   pclass |-> d[i].pclass,
                   older_passenger |-> Greater(d[i].age, m[i])]])

determine_age_division(u) ==
    /\ call' = [fn |-> "determine_age_division", url |-> u]
    /\ out' = determine_age_division_table(read_csv(u))
    /\ raised' = "none"

\* ------------------------------------------------------------ visualizers

\* visualize_age_division(df): the survival rate per (pclass,
\* older_passenger) that occurs, the data of the bar chart it returns.  The
\* two columns are derived first when df lacks them.
visualize_age_division_data(df) ==
    LET cols == IF Len(df) = 0 THEN {} ELSE DOMAIN df[1]
        d1 == IF "pclass" \notin cols /\ "Pclass" \in cols
              THEN Tuple([i \in Index(df) |->
                             [c \in cols \cup {"pclass"} |->
                                 IF c = "pclass" THEN df[i].Pclass ELSE df[i][c]]])
              ELSE df
        m == median_by_class(d1)
        d == IF "older_passenger" \notin cols
             THEN Tuple([i \in Index(d1) |->
                            [c \in DOMAIN d1[i] \cup {"older_passenger"} |->
                                IF c = "older_passenger"
                                THEN Greater(d1[i].age, m[i])
                                ELSE d1[i][c]]])
             ELSE d1
        ks == {<<d[i].pclass, d[i].older_passenger>> :
                  i \in {j \in Index(d) : d[j].pclass # NaN}}
        row(k) ==
            LET rs == {i \in Index(d) :
                          d[i].pclass = k[1] /\ d[i].older_passenger = k[2]}
                n == CountOver(d, rs, "PassengerId")
                v == SumOver(d, rs, "Survived")
            IN  [pclass |-> k[1], older_passenger |-> k[2],
                 n_passengers |-> n, n_survivors |-> v,
                 survival_rate |-> TrueDiv(v, n)]
        less(j, k) == j[1] < k[1] \/ (j[1] = k[1] /\ ~j[2] /\ k[2])
    IN  Tuple([i \in 1..Cardinality(ks) |->
                  row(CHOOSE k \in ks : Cardinality({j \in ks : less(j, k)}) = i - 1)])

\* visualize_age_division(df), df a value of the script (its table and the
\* URL the table was read from).
visualize_age_division(df) ==
    /\ call' = [fn |-> "visualize_age_division", url |-> df.url]
    /\ out' = visualize_age_division_data(df.data)
    /\ raised' = "none"

\* visualize_demographic(): a bar chart of survival_demographics() called
\* with no argument, that is, of the table at the default URL.
visualize_demographic ==
    LET t == read_csv(DEFAULT_TITANIC_URL)
        d == demographics_df(t)
    IN  \E dtype \in AgeGroupDtypes(groupby_agg(d), all_combinations(d)) :
            /\ call' = [fn |-> "visualize_demographic", url |-> DEFAULT_TITANIC_URL]
            /\ out' = survival_demographics_table(t, dtype)
            /\ raised' = "none"

\* visualize_families(): a scatter plot of family_groups() called with no
\* argument, that is, of the table at the default URL.
visualize_families ==
    /\ call' = [fn |-> "visualize_families", url |-> DEFAULT_TITANIC_URL]
    /\ out' = family_groups_table(read_csv(DEFAULT_TITANIC_URL))
    /\ raised' = "none"

\* The numbers of positional arguments each function of apputil accepts.
Arity(fn) ==
    CASE fn = "survival_demographics" -> {0, 1}
      [] fn = "family_groups" -> {0, 1}
      [] fn = "last_names" -> {0, 1}
      [] fn = "determine_age_division" -> {0, 1}
      [] fn = "visualize_age_division" -> {1}
      [] fn = "visualize_demographic" -> {0}
      [] fn = "visualize_families" -> {0}

\* ------------------------------------------------------------------ app.py

\* The statements of app.py that call apputil or put its results on the
\* page, in order: tab 1, tab 2, tab 3.
Script ==
    <<[op |-> "call", fn |-> "survival_demographics", args |-> <<"url">>, to |-> "results"],
      [op |-> "show", what |-> "results"],
      [op |-> "call", fn |-> "visualize_demographic", args |-> <<"results">>, to |-> "fig1"],
      [op |-> "show", what |-> "fig1"],
      [op |-> "call", fn |-> "family_groups", args |-> <<"url">>, to |-> "family_results"],
      [op |-> "show", what |-> "family_results"],
      [op |-> "call", fn |-> "last_names", args |-> <<"url">>, to |-> "last_name_counts"],
      [op |-> "show", what |-> "last_name_counts"],
      [op |-> "call", fn |-> "visualize_families", args |-> <<"family_results">>, to |-> "fig2"],
      [op |-> "show", what |-> "fig2"],
      [op |-> "call", fn |-> "determine_age_division", args |-> <<"url">>, to |-> "df_age"],
      [op |-> "show", what |-> "df_age"],
      [op |-> "call", fn |-> "visualize_age_division", args |-> <<"df_age">>, to |-> "fig3"],
      [op |-> "show", what |-> "fig3"]>>

ScriptVars ==
    {"results", "fig1", "family_results", "last_name_counts", "fig2", "df_age", "fig3"}

\* A variable the script has not assigned.
Unset == [url |-> "none", data |-> <<>>]

\* The call of statement st, its arguments accepted.
Invoke(st) ==
    IF st.fn = "survival_demographics" THEN survival_demographics(url)
    ELSE IF st.fn = "family_groups" THEN family_groups(url)
    ELSE IF st.fn = "last_names" THEN last_names(url)
    ELSE IF st.fn = "determine_age_division" THEN determine_age_division(url)
    ELSE IF st.fn = "visualize_age_division" THEN visualize_age_division(env[st.args[1]])
    ELSE IF st.fn = "visualize_demographic" THEN visualize_demographic
    ELSE visualize_families

\* One statement of the script.  A call with a number of arguments the
\* function does not accept raises TypeError, which ends the run; any other
\* call binds its result; a show statement appends to the page.
Step ==
    /\ pc \in 1..Len(Script)
    /\ LET st == Script[pc]
       IN  IF st.op = "show"
           THEN /\ shown' = Append(shown, [what |-> st.what, url |-> env[st.what].url])
                /\ pc' = pc + 1
                /\ UNCHANGED <<csv, call, out, raised, env>>
           ELSE IF Len(st.args) \notin Arity(st.fn)
           THEN /\ call' = [fn |-> st.fn, url |-> "none"]
                /\ out' = <<>>
                /\ raised' = "TypeError"
                /\ pc' = 0
                /\ UNCHANGED <<csv, env, shown>>
           ELSE /\ Invoke(st)
                /\ env' = [env EXCEPT ![st.to] = [url |-> call'.url, data |-> out']]
                /\ pc' = pc + 1
                /\ UNCHANGED <<csv, shown>>

\* ------------------------------------------------------------------ inputs

\* The columns an aggregator does not read take these values.
DefaultRow ==
    [PassengerId |-> 1, Pclass |-> 1, Sex |-> <<"m", "a", "l", "e">>, Age |-> NaN,
     Survived |-> 0, SibSp |-> 0, Parch |-> 0, Fare |-> NaN, Name |-> NaNStr]

\* The table of the rows t, PassengerId numbering them from 1.
WithIds(t) == Tuple([i \in DOMAIN t |-> [t[i] EXCEPT !.PassengerId = i]])

NoCall == [fn |-> "none", url |-> "none"]

\* The state before any call: the resources hold their tables.
Loaded(t) ==
    /\ csv = [u \in Urls |-> t]
    /\ call = NoCall
    /\ out = <<>>
    /\ raised = "none"
    /\ pc = 0
    /\ env = <<>>
    /\ shown = <<>>

MaxDemoRows == 2

SexPool == {<<"m", "a", "l", "e">>, <<" ", "M", "a", "l", "e">>,
            <<"f", "e", "m", "a", "l", "e">>}

DemoRows ==
    {[DefaultRow EXCEPT !.Pclass = c, !.Sex = s, !.Age = a, !.Survived = v] :
        c \in {1, 2}, s \in SexPool, a \in {NaN, 5, 30}, v \in {0, 1}}

InitDemographics ==
    \E k \in 0..MaxDemoRows : \E t \in [1..k -> DemoRows] : Loaded(WithIds(t))
NextDemographics == survival_demographics(DEFAULT_TITANIC_URL) /\ UNCHANGED app
SpecDemographics == InitDemographics /\ [][NextDemographics]_vars

\* One passenger of every whole age up to MaxAge, or of unknown age.
MaxAge == 201

AgeRows ==
    {[DefaultRow EXCEPT !.Age = a, !.Survived = v] :
        a \in {NaN} \cup 0..MaxAge, v \in {0, 1}}

InitAgeGroups == \E t \in [1..1 -> AgeRows] : Loaded(WithIds(t))
SpecAgeGroups == InitAgeGroups /\ [][NextDemographics]_vars

\* One class and one sex, up to MaxOrderRows passengers over the four groups.
MaxOrderRows == 4

OrderRows == {[DefaultRow EXCEPT !.Age = a] : a \in {5, 15, 30, 70}}

InitOrder ==
    \E k \in 0..MaxOrderRows : \E t \in [1..k -> OrderRows] : Loaded(WithIds(t))
SpecOrder == InitOrder /\ [][NextDemographics]_vars

\* Families of up to two siblings or spouses and two parents or children.
MaxFamilyRows == 2

FamilyRows ==
    {[DefaultRow EXCEPT !.SibSp = a, !.Parch = b, !.Pclass = c, !.Fare = f] :
        a \in {0, 1}, b \in {0, 2}, c \in {1, 2}, f \in {NaN, 7, 30}}

InitFamily ==
    \E k \in 0..MaxFamilyRows : \E t \in [1..k -> FamilyRows] : Loaded(WithIds(t))
NextFamily == family_groups(DEFAULT_TITANIC_URL) /\ UNCHANGED app
SpecFamily == InitFamily /\ [][NextFamily]_vars

\* Names of the form "Surname, Given", with stray blanks, without a comma,
\* and missing.
MaxNameRows == 3

SmithA == <<"S", "m", "i", "t", "h", ",", " ", "A">>
SmithB == <<"S", "m", "i", "t", "h", ",", " ", "B">>
JonesC == <<"J", "o", "n", "e", "s", ",", " ", "C">>
SmithJohn == <<"S", "m", "i", "t", "h", ",", " ", "J", "o", "h", "n">>
Smith == <<"S", "m", "i", "t", "h">>
Jones == <<"J", "o", "n", "e", "s">>

NamePool ==
    {SmithA, SmithB, JonesC, <<" ", "J", "o", "n", "e", "s", " ", ",", "D">>,
     <<"S", "m", "i", "t", "h">>, NaNStr}

NameRows == {[DefaultRow EXCEPT !.Name = n] : n \in NamePool}

InitNames ==
    \E k \in 0..MaxNameRows : \E t \in [1..k -> NameRows] : Loaded(WithIds(t))
NextNames == last_names(DEFAULT_TITANIC_URL) /\ UNCHANGED app
SpecNames == InitNames /\ [][NextNames]_vars

\* One passenger with any name of at most MaxNameLen characters over a
\* letter, a capital, the comma and the blank, or named "Smith, John".
MaxNameLen == 4

NameChars == {"a", "B", ",", " "}

InitSurname ==
    \/ \E k \in 1..MaxNameLen : \E n \in [1..k -> NameChars] :
           Loaded(WithIds(<<[DefaultRow EXCEPT !.Name = Tuple(n)]>>))
    \/ Loaded(WithIds(<<[DefaultRow EXCEPT !.Name = SmithJohn]>>))
SpecSurname == InitSurname /\ [][NextNames]_vars

\* Up to MaxAgeRows passengers of two classes, aged 20, 30, 40 or unknown.
MaxAgeRows == 3

AgeDivisionRows ==
    {[DefaultRow EXCEPT !.Pclass = c, !.Age = a] : c \in {1, 2}, a \in {NaN, 20, 30, 40}}

InitAgeDivision ==
    \E k \in 0..MaxAgeRows : \E t \in [1..k -> AgeDivisionRows] : Loaded(WithIds(t))
NextAgeDivision == determine_age_division(DEFAULT_TITANIC_URL) /\ UNCHANGED app
SpecAgeDivision == InitAgeDivision /\ [][NextAgeDivision]_vars

\* The library: any aggregator called on any resource, the resource holding
\* no row or one.
MaxRows == 1

AnyRows ==
    {[DefaultRow EXCEPT !.Pclass = c, !.Sex = s, !.Age = a, !.Survived = v,
                        !.SibSp = b, !.Fare = f, !.Name = n] :
        c \in {1, 2}, s \in SexPool, a \in {NaN, 30}, v \in {0, 1},
        b \in {0, 1}, f \in {NaN, 7}, n \in {SmithA, NaNStr}}

Init == \E k \in 0..MaxRows : \E t \in [1..k -> AnyRows] : Loaded(WithIds(t))

Next ==
    \E u \in Urls :
        /\ \/ survival_demographics(u)
           \/ family_groups(u)
           \/ last_names(u)
           \/ determine_age_division(u)
        /\ UNCHANGED app

Spec == Init /\ [][Next]_vars

\* A run of app.py: each URL serves a table of its own, of at most
\* MaxAppRows rows.
MaxAppRows == 1

AppRows ==
    {[DefaultRow EXCEPT !.Pclass = c, !.Age = a, !.Survived = v] :
        c \in {1, 2}, a \in {NaN, 30}, v \in {0, 1}}

InitApp ==
    \E k, l \in 0..MaxAppRows :
        \E t \in [1..k -> AppRows], d \in [1..l -> AppRows] :
            /\ csv = [u \in Urls |-> IF u = url THEN WithIds(t) ELSE WithIds(d)]
            /\ call = NoCall
            /\ out = <<>>
            /\ raised = "none"
            /\ pc = 1
            /\ env = [v \in ScriptVars |-> Unset]
            /\ shown = <<>>

SpecApp == InitApp /\ [][Step]_vars

\* ------------------------------------------------- claims: demographics

\* The table the last call read.
Input == csv[call.url]

Rows(t) == 1..Len(t)

\* The age group the data model defines: Child (0,12], Teen (12,19],
\* Adult (19,59], Senior (59,200], none otherwise or when age is missing.
ModelGroup(a) ==
    IF a = NaN THEN NoGroup
    ELSE IF 0 < a /\ a <= 12 THEN "Child"
    ELSE IF 12 < a /\ a <= 19 THEN "Teen"
    ELSE IF 19 < a /\ a <= 59 THEN "Adult"
    ELSE IF 59 < a /\ a <= 200 THEN "Senior"
    ELSE NoGroup

\* The age group claim C1 states: as the data model's, with age 0 a Child.
ClaimedGroup(a) == IF a = 0 THEN "Child" ELSE ModelGroup(a)

\* The lower-cased, trimmed form of each spelling of SexPool, written out.
NormalSex(s) ==
    CASE s = <<"m", "a", "l", "e">> -> <<"m", "a", "l", "e">>
      [] s = <<" ", "M", "a", "l", "e">> -> <<"m", "a", "l", "e">>
      [] s = <<"f", "e", "m", "a", "l", "e">> -> <<"f", "e", "m", "a", "l", "e">>

\* The number of passengers of table t in class c, of sex s, in group g.
Members(t, c, s, g) ==
    Cardinality({j \in Rows(t) :
                    /\ t[j].Pclass = c
                    /\ NormalSex(t[j].Sex) = s
                    /\ ModelGroup(t[j].Age) = g})

\* C1: in survival_demographics the age group is the claimed function of
\* age (0 and (0,12] Child, (12,19] Teen, (19,59] Adult, (59,200] Senior,
\* above 200 or missing none): the one passenger of a one-row table is
\* counted in the row of the claimed group and in no other row.
C1_AgeGroupAsClaimed ==
    (call.fn = "survival_demographics" /\ Len(Input) = 1) =>
        \A i \in Rows(out) :
            out[i].n_passengers =
                (IF out[i].age_group = ClaimedGroup(Input[1].Age) THEN 1 ELSE 0)

\* The assignment the code makes: the data model's intervals, under which a
\* passenger aged 0 is in no group.
AgeGroupPerDataModel ==
    (call.fn = "survival_demographics" /\ Len(Input) = 1) =>
        \A i \in Rows(out) :
            out[i].n_passengers =
                (IF out[i].age_group = ModelGroup(Input[1].Age) THEN 1 ELSE 0)

\* C2: every row of survival_demographics has n_survivors <= n_passengers,
\* survival_rate = n_survivors / n_passengers when n_passengers > 0, and
\* survival_rate = 0 (not NaN) when n_passengers = 0.
C2_RateDefined ==
    call.fn = "survival_demographics" =>
        \A i \in Rows(out) :
            /\ out[i].n_survivors <= out[i].n_passengers
            /\ out[i].n_passengers > 0 =>
                   /\ out[i].survival_rate[2] > 0
                   /\ out[i].survival_rate[1] * out[i].n_passengers
                          = out[i].n_survivors * out[i].survival_rate[2]
            /\ out[i].n_passengers = 0 => out[i].survival_rate = <<0, 1>>

\* C2 witness: a group of two passengers of whom one survived (rate 1/2)
\* beside an empty group (rate 0).
C2_Witness ==
    /\ call.fn = "survival_demographics"
    /\ \E i \in Rows(out) :
           /\ out[i].n_passengers = 2
           /\ out[i].n_survivors = 1
           /\ out[i].survival_rate = <<1, 2>>
    /\ \E i \in Rows(out) :
           out[i].n_passengers = 0 /\ out[i].survival_rate = <<0, 1>>

\* C3: the rows of survival_demographics ascend by (pclass, sex, age_group),
\* age_group in the order Child < Teen < Adult < Senior.
C3_CategoricalOrder ==
    call.fn = "survival_demographics" =>
        \A i \in 1..(Len(out) - 1) : KeyLessCategorical(out[i], out[i + 1])

\* C9: survival_demographics returns exactly one row for every class in the
\* data, normalized sex in the data and age group; each row counts the
\* passengers of that class, sex and group; the counts sum to the number of
\* passengers that have an age group.
C9_EnumerateAll ==
    call.fn = "survival_demographics" =>
        LET t == Input
            cs == {t[j].Pclass : j \in Rows(t)}
            ss == {NormalSex(t[j].Sex) : j \in Rows(t)}
            gs == {"Child", "Teen", "Adult", "Senior"}
        IN  /\ Len(out) = Cardinality(cs) * Cardinality(ss) * 4
            /\ \A c \in cs, s \in ss, g \in gs :
                   \E i \in Rows(out) :
                       /\ out[i].pclass = c
                       /\ out[i].sex = s
                       /\ out[i].age_group = g
            /\ \A i \in Rows(out) :
                   out[i].n_passengers =
                       Members(t, out[i].pclass, out[i].sex, out[i].age_group)
            /\ SumOver(out, Rows(out), "n_passengers")
                  = Cardinality({j \in Rows(t) : ModelGroup(t[j].Age) # NoGroup})

\* C9 witness: two spellings of one sex counted in one row, an empty
\* combination enumerated, and a passenger without an age group left out.
C9_Witness ==
    /\ call.fn = "survival_demographics"
    /\ \E j, k \in Rows(Input) :
           /\ Input[j].Sex # Input[k].Sex
           /\ NormalSex(Input[j].Sex) = NormalSex(Input[k].Sex)
           /\ Input[j].Pclass = Input[k].Pclass
           /\ Input[j].Age = 30
           /\ Input[k].Age = 30
    /\ \E i \in Rows(out) : out[i].n_passengers = 2
    /\ \E i \in Rows(out) : out[i].n_passengers = 0

\* C9 witness, second case: a passenger of unknown age is in no row while
\* the passenger's class and sex are still enumerated.
C9_WitnessExcluded ==
    /\ call.fn = "survival_demographics"
    /\ Len(Input) = 2
    /\ Input[1].Age = NaN
    /\ Input[2].Age = 5
    /\ Input[1].Pclass # Input[2].Pclass
    /\ Len(out) = 8
    /\ SumOver(out, Rows(out), "n_passengers") = 1

\* ---------------------------------------------------- claims: families

\* C5: family_groups groups by family size SibSp + Parch + 1, which is at
\* least 1; each row counts the passengers of exactly its (family_size,
\* pclass), and every passenger's pair has its row.
C5_FamilySize ==
    call.fn = "family_groups" =>
        /\ \A i \in Rows(out) :
               /\ out[i].family_size >= 1
               /\ out[i].n_passengers =
                      Cardinality({j \in Rows(Input) :
                          /\ Input[j].SibSp + Input[j].Parch + 1 = out[i].family_size
                          /\ Input[j].Pclass = out[i].pclass})
               /\ out[i].n_passengers >= 1
        /\ \A j \in Rows(Input) :
               Cardinality({i \in Rows(out) :
                   /\ out[i].family_size = Input[j].SibSp + Input[j].Parch + 1
                   /\ out[i].pclass = Input[j].Pclass}) = 1

\* C5 witness: a passenger travelling alone (size 1) and two passengers of
\* one class with the same size 4 reached through one row.
C5_Witness ==
    /\ call.fn = "family_groups"
    /\ \E i \in Rows(out) : out[i].family_size = 1
    /\ \E j \in Rows(Input) : Input[j].SibSp = 1 /\ Input[j].Parch = 2
    /\ \E i \in Rows(out) : out[i].family_size = 4

\* C5 witness, second case: two passengers share one row.
C5_WitnessShared ==
    /\ call.fn = "family_groups"
    /\ \E i \in Rows(out) : out[i].n_passengers = 2 /\ out[i].family_size = 3

\* ------------------------------------------------------- claims: surnames

\* The blanks at the two ends of the string s removed, by peeling.
RECURSIVE Trimmed(_)
Trimmed(s) ==
    IF s = <<>> THEN s
    ELSE IF Head(s) = " " THEN Trimmed(Tail(s))
    ELSE IF s[Len(s)] = " " THEN Trimmed(SubSeq(s, 1, Len(s) - 1))
    ELSE s

\* The surnames of the named passengers of table t, written out for NamePool.
PoolSurname(n) ==
    CASE n = SmithA -> Smith
      [] n = SmithB -> Smith
      [] n = JonesC -> Jones
      [] n = <<" ", "J", "o", "n", "e", "s", " ", ",", "D">> -> Jones
      [] n = <<"S", "m", "i", "t", "h">> -> Smith

\* C6: last_names returns one entry per distinct surname with the number of
\* passengers bearing it, in non-increasing order of count, the counts
\* summing to the number of named passengers; "Smith, A", "Smith, B",
\* "Jones, C" give Smith: 2 then Jones: 1.
C6_NameCounts ==
    call.fn = "last_names" =>
        LET t == Input
            named == {j \in Rows(t) : t[j].Name # NaNStr}
            surnames == {PoolSurname(t[j].Name) : j \in named}
        IN  /\ Len(out) = Cardinality(surnames)
            /\ \A sn \in surnames :
                   \E i \in Rows(out) :
                       /\ out[i].LastName = sn
                       /\ out[i].count =
                              Cardinality({j \in named : PoolSurname(t[j].Name) = sn})
            /\ \A i \in 1..(Len(out) - 1) : out[i].count >= out[i + 1].count
            /\ SumOver(out, Rows(out), "count") = Cardinality(named)
            /\ (Len(t) = 3 /\ {t[j].Name : j \in Rows(t)} = {SmithA, SmithB, JonesC}) =>
                   out = <<[LastName |-> Smith, count |-> 2],
                           [LastName |-> Jones, count |-> 1]>>

\* C6 witness: the table "Smith, A", "Smith, B", "Jones, C" counted.
C6_Witness ==
    /\ call.fn = "last_names"
    /\ Len(Input) = 3
    /\ Input[1].Name = SmithA
    /\ Input[2].Name = SmithB
    /\ Input[3].Name = JonesC
    /\ out = <<[LastName |-> Smith, count |-> 2], [LastName |-> Jones, count |-> 1]>>

\* C7: the surname last_names extracts is a fixed point of the extraction;
\* "Smith, John" gives "Smith"; a name without a comma gives the whole name
\* trimmed; no error is raised.
C7_SurnameIdempotent ==
    (call.fn = "last_names" /\ Len(Input) = 1 /\ Input[1].Name # NaNStr) =>
        LET x == Input[1].Name
        IN  /\ raised = "none"
            /\ Len(out) = 1
            /\ LastName(out[1].LastName) = out[1].LastName
            /\ x = SmithJohn => out[1].LastName = Smith
            /\ (\A i \in 1..Len(x) : x[i] # ",") => out[1].LastName = Trimmed(x)

\* C7 witness: a name with two commas and blanks around the surname.
C7_Witness ==
    /\ call.fn = "last_names"
    /\ Len(Input) = 1
    /\ Input[1].Name = <<" ", "a", ",", ",">>
    /\ out = <<[LastName |-> <<"a">>, count |-> 1]>>

\* C7 witness, second case: a name without a comma, blank at the end.
C7_WitnessNoComma ==
    /\ call.fn = "last_names"
    /\ Len(Input) = 1
    /\ Input[1].Name = <<"a", " ", "B", " ">>
    /\ out = <<[LastName |-> <<"a", " ", "B">>, count |-> 1]>>

\* --------------------------------------------------- claims: age division

\* A sequence without its first occurrence of the value v.
RECURSIVE Without(_, _)
Without(s, v) ==
    IF s = <<>> THEN s
    ELSE IF Head(s) = v THEN Tail(s)
    ELSE <<Head(s)>> \o Without(Tail(s), v)

SeqMin(s) == CHOOSE x \in Range(s) : \A y \in Range(s) : x <= y
SeqMax(s) == CHOOSE x \in Range(s) : \A y \in Range(s) : x >= y

\* Twice the median of a non-empty sequence of numbers: the smallest and
\* the largest are struck off until one or two are left.
RECURSIVE TwiceMedian(_)
TwiceMedian(s) ==
    IF Len(s) = 1 THEN 2 * s[1]
    ELSE IF Len(s) = 2 THEN s[1] + s[2]
    ELSE TwiceMedian(Without(Without(s, SeqMin(s)), SeqMax(s)))

\* The known ages of the passengers of class c in table t.
KnownAges(t, c) ==
    SelectSeq([i \in Rows(t) |-> IF t[i].Pclass = c THEN t[i].Age ELSE NaN],
              LAMBDA a : a # NaN)

\* C4: determine_age_division returns one row per passenger, older_passenger
\* true exactly when the age is known and strictly greater than the median
\* of the known ages of the passenger's class.
C4_OlderThanMedian ==
    call.fn = "determine_age_division" =>
        /\ Len(out) = Len(Input)
        /\ \A i \in Rows(out) :
               /\ out[i].PassengerId = Input[i].PassengerId
               /\ out[i].older_passenger =
                      (/\ Input[i].Age # NaN
                       /\ 2 * Input[i].Age
                              > TwiceMedian(KnownAges(Input, Input[i].Pclass)))

\* C4 witness: a class with ages 20, 30, 40; the passenger aged 40 is
\* older, the one aged 30 (the median) is not.
C4_Witness ==
    /\ call.fn = "determine_age_division"
    /\ Len(Input) = 3
    /\ \A i \in Rows(Input) : Input[i].Pclass = 1
    /\ <<Input[1].Age, Input[2].Age, Input[3].Age>> = <<20, 30, 40>>
    /\ <<out[1].older_passenger, out[2].older_passenger, out[3].older_passenger>>
          = <<FALSE, FALSE, TRUE>>

\* C4 witness, second case: an even count (median 25) and an unknown age.
C4_WitnessEven ==
    /\ call.fn = "determine_age_division"
    /\ Len(Input) = 3
    /\ \A i \in Rows(Input) : Input[i].Pclass = 2
    /\ <<Input[1].Age, Input[2].Age, Input[3].Age>> = <<30, NaN, 20>>
    /\ <<out[1].older_passenger, out[2].older_passenger, out[3].older_passenger>>
          = <<TRUE, FALSE, FALSE>>

\* ---------------------------------------------------- claims: empty input

\* C8: an aggregator called on a resource with no rows raises EmptyInput.
C8_EmptyInputReported ==
    (call.fn # "none" /\ Len(Input) = 0) => raised = "EmptyInput"

\* ------------------------------------------------------ claims: dashboard

\* C10: in a run of app.py no call fails, and everything put on the page,
\* each chart included, is built from the table at the app's own URL.
C10_ChartsFromShownTables ==
    /\ raised = "none"
    /\ \A i \in 1..Len(shown) : shown[i].url = url

====
